---- MODULE Spec2Model ----
(***************************************************************************)
(* IPRateMonitor (elements/ip/ipratemon.cc): a prefix tree of Stats nodes  *)
(* and Counters keyed by the octets of an IPv4 address, an age-list        *)
(* threading the nodes, a byte budget enforced by folding, and a monitor   *)
(* lock shared by the packet path and the handlers.                        *)
(*                                                                         *)
(* ipratemon.hh and ewma.hh are not part of the sources at hand: the       *)
(* inline members they define (update_rates, set_anno_level, the setters   *)
(* used by ~Stats, MyEWMA) are modelled from the specification text.       *)
(***************************************************************************)
EXTENDS Integers, Sequences, FiniteSets, TLC

\* ------------------------------------------------------------------ sizes

\* Fan-out of a Stats node: one slot per value of an address octet.
MAX_COUNTERS == 256
\* Number of address octets, hence the deepest level of counters.
MAX_LEVELS == 4
\* sizeof(Stats) and sizeof(Counter), ILP32 layout: 4 + 256 pointers; two
\* two-word EWMAs, a pointer and a deadline.
SizeofStats == 1040
SizeofCounter == 24
\* Smallest non-zero memory ceiling, in KiB.
MEMMAX_MIN == 2
\* Bytes per KiB; 2^32 / 1024, the KiB count at which a 32-bit byte count
\* wraps around.
KiB == 1024
WrapKiB == 4194304
\* 16.16 fixed point 1.0.
RatioOne == 65536

\* ---------------------------------------------------------------- bounds

\* Ticks since an event are counted up to MaxAge.
MaxAge == 3
\* Resets are issued while fewer than this many counters' bytes have leaked.
MaxLeakedCounters == 1
\* At most MaxOps packet and handler operations are started in a run.
MaxOps == 3
\* The runs checked for termination start at most FairOps operations.
FairOps == 2
\* forced_fold's threshold is counted up to MaxFoldThresh (above every
\* reachable average, so that a larger threshold folds nothing more).
MaxFoldThresh == 4
\* The paired runs pull at most MaxPairOps packets.
MaxPairOps == 2
\* A busy tree holds up to MaxFill root counters made by anno_level writes.
MaxFill == 35

\* -------------------------------------------------------------- pointers

NULL == -1
NullCounter == <<>>
Root == 0

\* The address "new Stats" returns for the child of counter s->counter[i]:
\* distinct live nodes get distinct addresses.
NewStatsAddr(s, i) == s * MAX_COUNTERS + i + 1

\* ------------------------------------------------------------------ EWMA

\* MyEWMA: a scaled integer average and the tick of its last update, kept
\* relative to the clock: age = now - last update, saturating at MaxAge
\* (EWMA_decay of any reachable average over MaxAge - 1 ticks is 0).
\* alpha = 1/2, samples scaled by 2.
EWMA_initialize == [avg |-> 0, age |-> 0]

RECURSIVE EWMA_decay(_, _)
EWMA_decay(a, n) == IF n <= 0 \/ a = 0 THEN a ELSE EWMA_decay(a \div 2, n - 1)

\* update(now, x): insert zeros for the elapsed ticks in [t0+1, now), then
\* fold x.
EWMA_update(e, x) ==
  LET a0 == EWMA_decay(e.avg, e.age - 1)
  IN  [avg |-> (a0 \div 2) + ((2 * x) \div 2), age |-> 0]

\* One tick of the clock passes. A zero average stays zero whatever its
\* age, so its age is not counted.
EWMA_tick(e) == [e EXCEPT !.age = IF @ < MaxAge /\ e.avg # 0 THEN @ + 1 ELSE @]

EWMA_average(e) == e.avg

\* Ticks per second.
EWMA_freq == 1

\* ------------------------------------------------------- Stats and Counter

Min(S) == CHOOSE x \in S : \A y \in S : x <= y

Drop(f, k) == [x \in DOMAIN f \ {k} |-> f[x]]
Put(f, k, v) == [x \in DOMAIN f \cup {k} |-> IF x = k THEN v ELSE f[x]]

\* Stats::Stats(m): accounts its own size, no parent, no neighbours, every
\* counter slot empty (a slot holds a Counter iff it is in DOMAIN counter).
NewStats == [parent |-> NullCounter, next |-> NULL, prev |-> NULL, counter |-> << >>]

StatsCtor(m, addr) ==
  [m EXCEPT !.alloced_mem = @ + SizeofStats,
            !.stats = Put(@, addr, NewStats)]

\* The inline setters ~Stats calls on its monitor.
update_alloced_mem(m, d) == [m EXCEPT !.alloced_mem = @ + d]
set_prev(m, s) == [m EXCEPT !.prev_deleted = s]
set_next(m, s) == [m EXCEPT !.next_deleted = s]
set_first(m, s) == [m EXCEPT !.first = s]
set_last(m, s) == [m EXCEPT !.last = s]

\* ~Stats, "Untangle _prev".
UntanglePrev(m, this) ==
  IF this.prev # NULL
  THEN set_prev([m EXCEPT !.stats[this.prev].next = this.next], this.prev)
  ELSE LET m1 == set_first(m, this.next)
           m2 == IF this.next # NULL
                 THEN [m1 EXCEPT !.stats[this.next].prev = NULL] ELSE m1
       IN  set_prev(m2, NULL)

\* An untangling that leaves the successor's _prev on the node going away.
UntangleNext_NoRelink(m, this) ==
  IF this.next # NULL
  THEN set_next(m, this.next)
  ELSE LET m1 == set_last(m, this.prev)
           m2 == IF this.prev # NULL
                 THEN [m1 EXCEPT !.stats[this.prev].next = NULL] ELSE m1
       IN  set_next(m2, NULL)

\* ~Stats, "Untangle _next".
UntangleNext(m, this) ==
  IF this.next # NULL
  THEN set_next([m EXCEPT !.stats[this.next].prev = this.prev], this.next)
  ELSE LET m1 == set_last(m, this.prev)
           m2 == IF this.prev # NULL
                 THEN [m1 EXCEPT !.stats[this.prev].next = NULL] ELSE m1
       IN  set_next(m2, NULL)

\* ~Stats, "Clear pointer to this in parent".
ClearParent(m, this) ==
  IF this.parent # NullCounter
  THEN [m EXCEPT !.stats[this.parent[1]].counter[this.parent[2]].next_level = NULL]
  ELSE m

\* The element of a one-element set: {e : x \in {v}} computes v once
\* and hands its value to e.
The(S) == CHOOSE r \in S : TRUE

RECURSIVE DeleteStats(_, _)
RECURSIVE DeleteCounters(_, _, _)

\* The loop of ~Stats over its slots, ascending: delete the counter's
\* next_level (recursively), delete the counter, give back its bytes.
DeleteCounters(m0, s, slots) ==
  IF slots = {} THEN m0
  ELSE The({ LET i == Min(slots)
                 c == m.stats[s].counter[i]
                 m1 == IF c.next_level # NULL
                       THEN DeleteStats(m, c.next_level) ELSE m
                 m2 == update_alloced_mem(
                         [m1 EXCEPT !.stats[s].counter = Drop(@, i)], -SizeofCounter)
             IN  DeleteCounters(m2, s, slots \ {i}) : m \in {m0} })

\* delete s: ~Stats, then the node's storage is gone.
DeleteStats(m, s) ==
  The({ LET this == m1.stats[s]
            m2 == UntanglePrev(m1, this)
            m3 == UntangleNext(m2, this)
            m4 == ClearParent(m3, this)
            m5 == update_alloced_mem(m4, -SizeofStats)
        IN  [m5 EXCEPT !.stats = Drop(@, s)]
        : m1 \in {DeleteCounters(m, s, DOMAIN m.stats[s].counter)} })

\* A make_counter that never looks at the memory ceiling.
make_counter_Uncapped(m, s, index, fwd, rev) ==
  LET c == [fwd_rate |-> IF fwd = << >> THEN EWMA_initialize ELSE fwd[1],
            rev_rate |-> IF rev = << >> THEN EWMA_initialize ELSE rev[1],
            next_level |-> NULL,
            anno_this |-> 0]
  IN  [m |-> [m EXCEPT !.stats[s].counter = Put(@, index, c),
                       !.alloced_mem = @ + SizeofCounter],
       c |-> <<s, index>>]

\* A pointer to an EWMA is <<e>>, the null pointer << >>.
make_counter(m, s, index, fwd, rev) ==
  IF m.memmax # 0 /\ m.alloced_mem + SizeofCounter > m.memmax
  THEN [m |-> m, c |-> NullCounter]
  ELSE LET c == [fwd_rate |-> IF fwd = << >> THEN EWMA_initialize ELSE fwd[1],
                 rev_rate |-> IF rev = << >> THEN EWMA_initialize ELSE rev[1],
                 next_level |-> NULL,
                 anno_this |-> 0]
       IN  [m |-> [m EXCEPT !.stats[s].counter = Put(@, index, c),
                            !.alloced_mem = @ + SizeofCounter],
            c |-> <<s, index>>]

\* -------------------------------------------------------------- age-list

RECURSIVE WalkNext(_, _, _)
\* The nodes met from s along _next (a freed node ends the walk).
WalkNext(m, s, fuel) ==
  IF s = NULL \/ fuel = 0 THEN << >>
  ELSE IF s \notin DOMAIN m.stats THEN <<s>>
  ELSE <<s>> \o WalkNext(m, m.stats[s].next, fuel - 1)

RECURSIVE WalkPrev(_, _, _)
\* The nodes met from s along _prev.
WalkPrev(m, s, fuel) ==
  IF s = NULL \/ fuel = 0 THEN << >>
  ELSE IF s \notin DOMAIN m.stats THEN <<s>>
  ELSE <<s>> \o WalkPrev(m, m.stats[s].prev, fuel - 1)

Fuel(m) == Cardinality(DOMAIN m.stats) + 1
FromFirst(m) == WalkNext(m, m.first, Fuel(m))
FromLast(m) == WalkPrev(m, m.last, Fuel(m))
Range(q) == {q[i] : i \in 1..Len(q)}

\* ------------------------------------------------------------------ fold

\* The history of the fold call being made: one entry per node the loop
\* visits, with what it did there. what: "root" (skipped), "fwd_warm" or
\* "rev_warm" (kept), "destroyed", or "freed" (the node visited is gone).
\* fwd, rev: the parent counter's averages as the loop read them (NULL: not
\* read); rev_aged: rev_rate.update was called; gone: the nodes the delete
\* destroyed; published: the neighbour ~Stats left to resume from; live: the
\* nodes alive after the visit; listed: the nodes on the age-list after a
\* delete.
Visit(m, s, what, target) ==
  [node |-> s, what |-> what, alloc |-> m.alloced_mem, target |-> target,
   fwd |-> NULL, rev |-> NULL, rev_aged |-> FALSE, gone |-> {},
   published |-> NULL, live |-> DOMAIN m.stats, listed |-> {}]

Seen(m, v) == [m EXCEPT !.fold_log = Append(@, v)]

\* A loop that goes back to start with s still the node it deleted.
Resume_SameNode(m, s, forward) == s

\* "s = (forward ? _next_deleted : _prev_deleted)", after delete s.
Resume(m, s, forward) == IF forward THEN m.next_deleted ELSE m.prev_deleted

\* A test that lets the reverse rate be aged whatever the forward average.
FwdBelow_Always(f, thresh) == TRUE

\* "if (s->_parent->fwd_rate.average() < thresh)": only then is the reverse
\* rate updated and looked at.
FwdBelow(f, thresh) == f < thresh

\* A test that condemns the node whatever the reverse average.
RevBelow_Always(r, thresh) == TRUE

\* "if (s->_parent->rev_rate.average() < thresh)": then delete s.
RevBelow(r, thresh) == r < thresh

RECURSIVE fold_loop(_, _, _, _, _)
\* The do-while of fold from the label start, s the node being visited.
\* (A visit to a freed node has no defined outcome: the walk is cut there.)
fold_loop(m0, s0, thresh, forward, memmax) ==
  The({
    IF s \notin DOMAIN m.stats THEN Seen(m, Visit(m, s, "freed", memmax))
    ELSE
    LET Advance(mm) ==
          LET s2 == IF forward THEN mm.stats[s].next ELSE mm.stats[s].prev
          IN  IF s2 = NULL THEN mm
              ELSE fold_loop(mm, s2, thresh, forward, memmax)
        p == m.stats[s].parent
    IN  IF p = NullCounter THEN Advance(Seen(m, Visit(m, s, "root", memmax)))
        ELSE
          LET m1 == [m EXCEPT !.stats[p[1]].counter[p[2]].fwd_rate =
                                EWMA_update(@, 0)]
              f == EWMA_average(m1.stats[p[1]].counter[p[2]].fwd_rate)
          IN  IF FwdBelow(f, thresh)
              THEN
                LET m2 == [m1 EXCEPT !.stats[p[1]].counter[p[2]].rev_rate =
                                       EWMA_update(@, 0)]
                    r == EWMA_average(m2.stats[p[1]].counter[p[2]].rev_rate)
                    v == [Visit(m, s, "rev_warm", memmax) EXCEPT
                            !.fwd = f, !.rev = r, !.rev_aged = TRUE]
                IN  IF RevBelow(r, thresh)
                    THEN
                      The({ LET s3 == Resume(m3, s, forward)
                                m4 == Seen(m3, [v EXCEPT
                                        !.what = "destroyed",
                                        !.gone = DOMAIN m2.stats \ DOMAIN m3.stats,
                                        !.published = s3,
                                        !.live = DOMAIN m3.stats,
                                        !.listed = Range(FromFirst(m3))])
                            IN  IF m3.alloced_mem < memmax \/ s3 = NULL THEN m4
                                ELSE fold_loop(m4, s3, thresh, forward, memmax)
                            : m3 \in {DeleteStats(m2, s)} })
                    ELSE Advance(Seen(m2, v))
              ELSE Advance(Seen(m1, [Visit(m, s, "fwd_warm", memmax)
                                       EXCEPT !.fwd = f]))
    : m \in {m0}, s \in {s0} })

\* FOLD_FACTOR 0.9, as (unsigned)(((float) _alloced_mem) * FOLD_FACTOR).
FoldTarget(m) ==
  IF m.memmax # 0 THEN m.memmax ELSE (m.alloced_mem * 9) \div 10

fold(m, thresh, forward) ==
  LET m0 == [m EXCEPT !.prev_deleted = NULL, !.next_deleted = NULL,
                      !.fold_log = << >>]
      s == IF forward THEN m.first ELSE m.last
  IN  fold_loop(m0, s, thresh, forward, FoldTarget(m))

\* ---------------------------------------------------------- update_rates

\* Zoom-in: a new Stats for the next level under counter s->counter[i],
\* owned by that counter and spliced at the tail of the age-list.
ZoomIn(m, s, i) ==
  LET n == NewStatsAddr(s, i)
      m1 == StatsCtor(m, n)
      m2 == [m1 EXCEPT !.stats[n].parent = <<s, i>>,
                       !.stats[s].counter[i].next_level = n]
  IN  IF m2.last = NULL
      THEN [m2 EXCEPT !.first = n, !.last = n]
      ELSE [m2 EXCEPT !.stats[m2.last].next = n,
                      !.stats[n].prev = m2.last,
                      !.last = n]

RECURSIVE update(_, _, _, _, _, _, _)
\* The descent for one address from node s at level k (1-based octet index).
\* use_fwd: the sample goes to fwd_rate (else rev_rate); val: the sample.
update(m, s, k, addr, use_fwd, val, do_ewma) ==
  LET i == addr[k]
      par == m.stats[s].parent
      seed_f == IF par = NullCounter THEN << >>
                ELSE <<m.stats[par[1]].counter[par[2]].fwd_rate>>
      seed_r == IF par = NullCounter THEN << >>
                ELSE <<m.stats[par[1]].counter[par[2]].rev_rate>>
      got == IF i \in DOMAIN m.stats[s].counter THEN [m |-> m, c |-> <<s, i>>]
             ELSE IF do_ewma THEN make_counter(m, s, i, seed_f, seed_r)
             ELSE [m |-> m, c |-> NullCounter]
  IN  IF got.c = NullCounter THEN m
      ELSE
        LET m1 == IF ~do_ewma THEN got.m
                  ELSE IF use_fwd
                  THEN [got.m EXCEPT !.stats[s].counter[i].fwd_rate = EWMA_update(@, val)]
                  ELSE [got.m EXCEPT !.stats[s].counter[i].rev_rate = EWMA_update(@, val)]
            c1 == m1.stats[s].counter[i]
        IN  IF m1.anno_packets /\ c1.anno_this > 0 THEN m1
            ELSE
              LET hot == EWMA_average(c1.fwd_rate) > m1.thresh
                         \/ EWMA_average(c1.rev_rate) > m1.thresh
                  m2 == IF c1.next_level = NULL /\ k < MAX_LEVELS /\ hot
                        THEN ZoomIn(m1, s, i) ELSE m1
                  child == m2.stats[s].counter[i].next_level
              IN  IF child # NULL /\ k < MAX_LEVELS
                  THEN update(m2, child, k + 1, addr, use_fwd, val, do_ewma)
                  ELSE m2

\* update_rates(p, forward, do_ewma): the source address counts in the
\* packet's direction, the destination address in the mirror direction.
update_rates(m, p, forward, do_ewma) ==
  LET val == IF m.count_packets THEN 1 ELSE p.len
      m1 == update(m, m.base, 1, p.src, forward, val, do_ewma)
  IN  update(m1, m1.base, 1, p.dst, ~forward, val, do_ewma)

RECURSIVE anno_descend(_, _, _, _, _, _)
anno_descend(m, s, k, addr, level, when) ==
  LET i == addr[k]
      got == IF i \in DOMAIN m.stats[s].counter THEN [m |-> m, c |-> <<s, i>>]
             ELSE make_counter(m, s, i, << >>, << >>)
  IN  IF got.c = NullCounter THEN m
      ELSE IF k - 1 = level
      THEN [got.m EXCEPT !.stats[s].counter[i].anno_this = when]
      ELSE LET child == got.m.stats[s].counter[i].next_level
           IN  IF child = NULL THEN got.m
               ELSE anno_descend(got.m, child, k + 1, addr, level, when)

\* set_anno_level(a, level, when): the deadline is kept as ticks from now.
set_anno_level(m, a, level, when) == anno_descend(m, m.base, 1, a, level, when)

\* ----------------------------------------------------------------- print

RECURSIVE print(_, _)
RECURSIVE print_slots(_, _, _)
\* The dump ages both rates of every counter it prints and descends into
\* its next_level; a counter with both averages 0 is skipped with its subtree.
print_slots(m, s, slots) ==
  IF slots = {} THEN m
  ELSE LET i == Min(slots)
           c == m.stats[s].counter[i]
           m1 == IF EWMA_average(c.rev_rate) > 0 \/ EWMA_average(c.fwd_rate) > 0
                 THEN LET m2 == [m EXCEPT
                                   !.stats[s].counter[i].fwd_rate = EWMA_update(@, 0),
                                   !.stats[s].counter[i].rev_rate = EWMA_update(@, 0)]
                      IN  IF c.next_level # NULL THEN print(m2, c.next_level) ELSE m2
                 ELSE m
       IN  print_slots(m1, s, slots \ {i})

print(m, s) == print_slots(m, s, DOMAIN m.stats[s].counter)

\* ----------------------------------------------------------------- reset

RECURSIVE reset_slots(_, _)
\* The loop of reset_write_handler over the slots of _base.
reset_slots(m, slots) ==
  IF slots = {} THEN m
  ELSE LET i == Min(slots)
           c == m.stats[m.base].counter[i]
           m1 == IF c.next_level # NULL THEN DeleteStats(m, c.next_level) ELSE m
           m2 == [m1 EXCEPT !.stats[m.base].counter = Drop(@, i)]
       IN  reset_slots(m2, slots \ {i})

set_resettime(m) == [m EXCEPT !.resettime = 0]

\* A reset that frees the root's counters and forgets the nodes below them.
reset_LeavesChildren(m) ==
  set_resettime([m EXCEPT !.stats[m.base].counter = << >>])

\* reset_write_handler between acquire and release.
reset(m) == set_resettime(reset_slots(m, DOMAIN m.stats[m.base].counter))

\* ------------------------------------------------------------- configure

\* _memmax after "if (_memmax && _memmax < MEMMAX_MIN) _memmax = MEMMAX_MIN;
\* _memmax *= 1024" in unsigned 32-bit arithmetic.
\* (k * 1024) mod 2^32 = (k mod 2^22) * 1024.
MemmaxBytes(kib) ==
  ((IF kib # 0 /\ kib < MEMMAX_MIN THEN MEMMAX_MIN ELSE kib) % WrapKiB) * KiB

\* "_thresh = (_thresh * _ratio) >> 16" in unsigned 32-bit arithmetic, for
\* r <= 2^16: with t = th * 2^16 + tl,
\* ((t * r) mod 2^32) >> 16 = (th * r + ((tl * r) >> 16)) mod 2^16.
ScaleThresh(t, r) ==
  ((t \div RatioOne) * r + (((t % RatioOne) * r) \div RatioOne)) % RatioOne

\* conf: [parse_ok, count_what, offset, ratio, thresh, memmax, annotate];
\* cp_va_parse stores its results only when every argument parses.
configure(m, conf) ==
  LET m0 == [m EXCEPT !.memmax = 0, !.anno_packets = TRUE]
  IN  IF ~conf.parse_ok THEN [m |-> m0, ret |-> -1]
      ELSE
        LET m1 == [m0 EXCEPT !.offset = conf.offset, !.ratio = conf.ratio,
                             !.thresh = conf.thresh, !.memmax = conf.memmax,
                             !.anno_packets = conf.annotate]
        IN  IF conf.count_what \notin {"PACKETS", "BYTES"}
            THEN [m |-> m1, ret |-> -1]
            ELSE
              LET m2 == [m1 EXCEPT !.count_packets = (conf.count_what = "PACKETS"),
                                   !.memmax = MemmaxBytes(@)]
              IN  IF m2.ratio > RatioOne THEN [m |-> m2, ret |-> -1]
                  ELSE [m |-> [m2 EXCEPT !.thresh = ScaleThresh(@, m2.ratio)],
                        ret |-> 0]

\* An initialize that leaves the age-list empty.
initialize_EmptyAgeList(m) ==
  [StatsCtor(set_resettime(m), Root) EXCEPT !.base = Root]

\* initialize: _base = new Stats(this); _first = _last = _base.
initialize(m) ==
  LET m1 == StatsCtor(set_resettime(m), Root)
  IN  [m1 EXCEPT !.base = Root, !.first = Root, !.last = Root]

\* One tick of the host clock: every recorded tick grows one tick older and
\* every annotation deadline one tick nearer.
ClockTick(m) ==
  [m EXCEPT
     !.resettime = IF @ < MaxAge THEN @ + 1 ELSE @,
     !.stats = [s \in DOMAIN @ |->
                 [@[s] EXCEPT !.counter = [i \in DOMAIN @ |->
                    [@[i] EXCEPT !.fwd_rate = EWMA_tick(@),
                                 !.rev_rate = EWMA_tick(@),
                                 !.anno_this = IF @ > 0 THEN @ - 1 ELSE 0]]]]]

\* ------------------------------------------------------------ accounting

RECURSIVE CountersIn(_, _)
\* The number of Counters held by the nodes in S.
CountersIn(m, S) ==
  IF S = {} THEN 0
  ELSE LET s == Min(S)
       IN  Cardinality(DOMAIN m.stats[s].counter) + CountersIn(m, S \ {s})

\* The bytes of the live Stats and Counters.
LiveBytes(m) ==
  SizeofStats * Cardinality(DOMAIN m.stats)
    + SizeofCounter * CountersIn(m, DOMAIN m.stats)

\* Bytes still accounted in _alloced_mem for objects that no longer exist.
LeakedBytes(m) == m.alloced_mem - LiveBytes(m)

\* ----------------------------------------------------------------- state

VARIABLES
  rm,      \* the IPRateMonitor object and the Stats/Counters it owns (with
           \* fold_log, the history of the fold call being made)
  phase,   \* "constructed", "configured", "initialized" or "failed"
  lock,    \* the Spinlock: "free" or the context holding it
  pc,      \* where each context is inside the operation it runs
  ff,      \* the running handler's locals: forced_fold's thresh and perc,
           \* look's first line (the ticks since the last reset)
  ret,     \* the call that returned in the last step, and its value
  ops,     \* the number of operations started since initialize
  twin     \* a second monitor fed the same packets at the same ticks as rm
           \* (paired runs only; NoTwin otherwise)

vars == <<rm, phase, lock, pc, ff, ret, ops, twin>>

\* The packet path and the handlers run on two contexts.
Contexts == {"pkt", "ctl"}

\* ---------------------------------------------------------------- inputs

AddrA == <<10, 0, 0, 1>>
AddrB == <<18, 0, 0, 2>>
\* The first octets of the addresses annotated in a busy tree: FillFrom + n.
FillFrom == 100
Packets == {[src |-> AddrA, dst |-> AddrB, len |-> 2]}
Ports == {0, 1}

Conf(ok, what, ratio, thresh, memmax) ==
  [parse_ok |-> ok, count_what |-> what, offset |-> 14, ratio |-> ratio,
   thresh |-> thresh, memmax |-> memmax, annotate |-> TRUE]

\* Configurations: accepted ones (one with a threshold above 2^16), then a
\* malformed argument list, an unknown monitor type and a ratio above 1.
Confs ==
  { Conf(TRUE, "BYTES", RatioOne, 1, 0),
    Conf(TRUE, "PACKETS", RatioOne \div 2, 1, 3),
    Conf(TRUE, "BYTES", RatioOne, 2, 0),
    Conf(TRUE, "PACKETS", RatioOne, 1, WrapKiB + 1),
    Conf(TRUE, "BYTES", RatioOne, RatioOne + 1, 0),
    Conf(FALSE, "PACKETS", RatioOne, 1, 3),
    Conf(TRUE, "FOO", RatioOne, 5, 3),
    Conf(TRUE, "BYTES", RatioOne + 1, 5, 3) }

\* What a write handler is handed: a well-formed value or a malformed string.
MemmaxArgs == {0, 1, 3, 5}
AnnoArgs == [a : {AddrA}, level : {0, 1}, when : {1}]

NoFold == [thresh |-> 0, perc |-> 0, hdr |-> 0]
NoRet == [h |-> "none", val |-> 0]

NoTwin == << >>

\* IPRateMonitor::IPRateMonitor()
IPRateMonitor ==
  [count_packets |-> TRUE, offset |-> 0, thresh |-> 1, memmax |-> 0,
   ratio |-> 1, anno_packets |-> TRUE, base |-> NULL, alloced_mem |-> 0,
   first |-> NULL, last |-> NULL, prev_deleted |-> NULL,
   next_deleted |-> NULL, resettime |-> 0, stats |-> << >>,
   fold_log |-> << >>]

\* The state after construction, with the count of operations at started.
Constructed(started) ==
  /\ rm = IPRateMonitor
  /\ twin = NoTwin
  /\ phase = "constructed"
  /\ lock = "free"
  /\ pc = [c \in Contexts |-> "idle"]
  /\ ff = NoFold
  /\ ret = NoRet
  /\ ops = started

Init == Constructed(0)

\* --------------------------------------------------------------- actions

Configure ==
  /\ phase = "constructed"
  /\ \E conf \in Confs :
       LET r == configure(rm, conf)
       IN  /\ rm' = r.m
           /\ ret' = [h |-> "configure", val |-> r.ret, conf |-> conf]
           /\ phase' = IF r.ret = 0 THEN "configured" ELSE "failed"
  /\ UNCHANGED <<lock, pc, ff, ops, twin>>

Initialize ==
  /\ phase = "configured"
  /\ rm' = initialize(rm)
  /\ phase' = "initialized"
  /\ ret' = [h |-> "initialize", val |-> 0]
  /\ UNCHANGED <<lock, pc, ff, ops, twin>>

Running == phase = "initialized"

\* Context c is free to start an operation.
Begin(c) == Running /\ pc[c] = "idle" /\ ops < MaxOps

Tick ==
  /\ Running
  /\ rm' = ClockTick(rm)
  /\ ret' = NoRet
  /\ UNCHANGED <<phase, lock, pc, ff, ops, twin>>

\* push: the sample decision, then _lock->acquire().
PushAcquire ==
  /\ Begin("pkt") /\ lock = "free"
  /\ ops' = ops + 1
  /\ lock' = "pkt"
  /\ pc' = [pc EXCEPT !["pkt"] = "push_cs"]
  /\ ret' = NoRet
  /\ UNCHANGED <<rm, phase, ff, twin>>

\* A push that hands the packet downstream with the lock still taken.
PushUpdate_KeepsLock ==
  /\ pc["pkt"] = "push_cs"
  /\ \E p \in Packets, port \in Ports, ewma \in BOOLEAN :
       rm' = update_rates(rm, p, port = 0, ewma)
  /\ pc' = [pc EXCEPT !["pkt"] = "push_out"]
  /\ ret' = [h |-> "push", val |-> 0]
  /\ UNCHANGED <<phase, lock, ff, ops, twin>>

\* push: update_rates(p, port == 0, ewma); _lock->release().
PushUpdate ==
  /\ pc["pkt"] = "push_cs"
  /\ \E p \in Packets, port \in Ports, ewma \in BOOLEAN :
       rm' = update_rates(rm, p, port = 0, ewma)
  /\ lock' = "free"
  /\ pc' = [pc EXCEPT !["pkt"] = "push_out"]
  /\ ret' = [h |-> "push", val |-> 0]
  /\ UNCHANGED <<phase, ff, ops, twin>>

\* push: output(port).push(p).
PushOutput ==
  /\ pc["pkt"] = "push_out"
  /\ pc' = [pc EXCEPT !["pkt"] = "idle"]
  /\ ret' = NoRet
  /\ UNCHANGED <<rm, phase, lock, ff, ops, twin>>

\* pull: input(port).pull() handed over a packet.
PullInput ==
  /\ Begin("pkt")
  /\ ops' = ops + 1
  /\ pc' = [pc EXCEPT !["pkt"] = "pull_upd"]
  /\ ret' = NoRet
  /\ UNCHANGED <<rm, phase, lock, ff, twin>>

\* pull: update_rates(p, port == 0, true); return p.
PullUpdate ==
  /\ pc["pkt"] = "pull_upd"
  /\ \E p \in Packets, port \in Ports :
       rm' = update_rates(rm, p, port = 0, TRUE)
  /\ pc' = [pc EXCEPT !["pkt"] = "idle"]
  /\ ret' = [h |-> "pull", val |-> 0]
  /\ UNCHANGED <<phase, lock, ff, ops, twin>>

ResetAcquire ==
  /\ Begin("ctl") /\ lock = "free"
  /\ ops' = ops + 1
  /\ LeakedBytes(rm) < MaxLeakedCounters * SizeofCounter
  /\ lock' = "ctl"
  /\ pc' = [pc EXCEPT !["ctl"] = "reset_cs"]
  /\ ret' = NoRet
  /\ UNCHANGED <<rm, phase, ff, twin>>

ResetBody ==
  /\ pc["ctl"] = "reset_cs"
  /\ rm' = reset(rm)
  /\ lock' = "free"
  /\ pc' = [pc EXCEPT !["ctl"] = "idle"]
  /\ ret' = [h |-> "reset", val |-> 0]
  /\ UNCHANGED <<phase, ff, ops, twin>>

\* memmax_write_handler: the argument checks fail before the lock is taken.
MemmaxWriteError ==
  /\ Begin("ctl")
  /\ ops' = ops + 1
  /\ ret' = [h |-> "memmax_write", val |-> -1]
  /\ UNCHANGED <<rm, phase, lock, pc, ff, twin>>

MemmaxWriteAcquire ==
  /\ Begin("ctl") /\ lock = "free"
  /\ ops' = ops + 1
  /\ lock' = "ctl"
  /\ pc' = [pc EXCEPT !["ctl"] = "memmax_cs"]
  /\ ret' = NoRet
  /\ UNCHANGED <<rm, phase, ff, twin>>

\* The handler's clamp and "me->_memmax = memmax * 1024".
MemmaxWriteBytes(kib) ==
  (IF kib # 0 /\ kib < MEMMAX_MIN THEN MEMMAX_MIN ELSE kib) * KiB

\* forced_fold's set-up: perc = (int) (((float) _thresh) / 5.0).
ForcedFoldEntry(m) == [thresh |-> m.thresh, perc |-> m.thresh \div 5, hdr |-> 0]

\* memmax_write_handler: set the cap; fold if necessary, else release.
MemmaxWriteSet ==
  /\ pc["ctl"] = "memmax_cs"
  /\ \E kib \in MemmaxArgs :
       LET m1 == [rm EXCEPT !.memmax = MemmaxWriteBytes(kib)]
       IN  /\ rm' = m1
           /\ IF m1.memmax # 0 /\ m1.alloced_mem > m1.memmax
              THEN /\ pc' = [pc EXCEPT !["ctl"] = "forced_fold"]
                   /\ ff' = ForcedFoldEntry(m1)
                   /\ ret' = NoRet
                   /\ UNCHANGED <<lock>>
              ELSE /\ pc' = [pc EXCEPT !["ctl"] = "idle"]
                   /\ lock' = "free"
                   /\ ret' = [h |-> "memmax_write", val |-> 0]
                   /\ UNCHANGED ff
  /\ UNCHANGED <<phase, ops, twin>>

\* forced_fold: one turn of "for (...; _alloced_mem > _memmax; thresh += perc)
\* fold(thresh)".
ForcedFoldTest ==
  /\ pc["ctl"] = "forced_fold"
  /\ rm.alloced_mem > rm.memmax
  /\ pc' = [pc EXCEPT !["ctl"] = "forced_fold_body"]
  /\ ret' = NoRet
  /\ UNCHANGED <<rm, phase, lock, ff, ops, twin>>

\* The loop body and increment: fold(thresh); thresh += perc.
ForcedFoldStep ==
  /\ pc["ctl"] = "forced_fold_body"
  /\ \E forward \in BOOLEAN :
       rm' = [fold(rm, ff.thresh, forward) EXCEPT !.fold_log = << >>]
  /\ ff' = [ff EXCEPT !.thresh = IF @ + ff.perc > MaxFoldThresh
                                 THEN MaxFoldThresh ELSE @ + ff.perc]
  /\ pc' = [pc EXCEPT !["ctl"] = "forced_fold"]
  /\ ret' = NoRet
  /\ UNCHANGED <<phase, lock, ops, twin>>

\* forced_fold returns; memmax_write_handler releases the lock and returns.
ForcedFoldExit ==
  /\ pc["ctl"] = "forced_fold"
  /\ rm.alloced_mem <= rm.memmax
  /\ pc' = [pc EXCEPT !["ctl"] = "idle"]
  /\ lock' = "free"
  /\ ff' = NoFold
  /\ ret' = [h |-> "memmax_write", val |-> 0]
  /\ UNCHANGED <<rm, phase, ops, twin>>

\* anno_level_write_handler: the argument checks fail before the lock is taken.
AnnoWriteError ==
  /\ Begin("ctl")
  /\ ops' = ops + 1
  /\ ret' = [h |-> "anno_level_write", val |-> -1]
  /\ UNCHANGED <<rm, phase, lock, pc, ff, twin>>

AnnoWriteAcquire ==
  /\ Begin("ctl") /\ lock = "free"
  /\ ops' = ops + 1
  /\ lock' = "ctl"
  /\ pc' = [pc EXCEPT !["ctl"] = "anno_cs"]
  /\ ret' = NoRet
  /\ UNCHANGED <<rm, phase, ff, twin>>

\* when *= freq(); when += now(): the deadline, in ticks from now.
AnnoWriteSet ==
  /\ pc["ctl"] = "anno_cs"
  /\ \E arg \in AnnoArgs :
       rm' = set_anno_level(rm, arg.a, arg.level, arg.when * EWMA_freq)
  /\ lock' = "free"
  /\ pc' = [pc EXCEPT !["ctl"] = "idle"]
  /\ ret' = [h |-> "anno_level_write", val |-> 0]
  /\ UNCHANGED <<phase, ff, ops, twin>>

\* look_read_handler: _lock->attempt() fails, "unavailable" is returned.
LookUnavailable ==
  /\ Begin("ctl") /\ lock # "free"
  /\ ops' = ops + 1
  /\ ret' = [h |-> "look", val |-> rm.resettime, body |-> "unavailable"]
  /\ UNCHANGED <<rm, phase, lock, pc, ff, twin>>

\* look_read_handler: _lock->attempt() succeeds.
LookAttempt ==
  /\ Begin("ctl") /\ lock = "free"
  /\ ops' = ops + 1
  /\ lock' = "ctl"
  /\ pc' = [pc EXCEPT !["ctl"] = "look_cs"]
  /\ ff' = [ff EXCEPT !.hdr = rm.resettime]
  /\ ret' = NoRet
  /\ UNCHANGED <<rm, phase, twin>>

\* A look that returns the dump without releasing the lock.
LookDump_KeepsLock ==
  /\ pc["ctl"] = "look_cs"
  /\ rm' = print(rm, rm.base)
  /\ pc' = [pc EXCEPT !["ctl"] = "idle"]
  /\ ff' = NoFold
  /\ ret' = [h |-> "look", val |-> ff.hdr, body |-> "dump"]
  /\ UNCHANGED <<phase, lock, ops, twin>>

\* look_read_handler: print(_base), release, return the dump.
LookDump ==
  /\ pc["ctl"] = "look_cs"
  /\ rm' = print(rm, rm.base)
  /\ lock' = "free"
  /\ pc' = [pc EXCEPT !["ctl"] = "idle"]
  /\ ff' = NoFold
  /\ ret' = [h |-> "look", val |-> ff.hdr, body |-> "dump"]
  /\ UNCHANGED <<phase, ops, twin>>

\* thresh, mem and memmax read handlers: entered, then the field is read.
ReadEnter ==
  /\ Begin("ctl")
  /\ ops' = ops + 1
  /\ \E h \in {"thresh_rd", "mem_rd", "memmax_rd"} :
       pc' = [pc EXCEPT !["ctl"] = h]
  /\ ret' = NoRet
  /\ UNCHANGED <<rm, phase, lock, ff, twin>>

thresh_read_handler(m) == m.thresh
mem_read_handler(m) == m.alloced_mem
memmax_read_handler(m) == m.memmax

ReadReturn ==
  /\ pc["ctl"] \in {"thresh_rd", "mem_rd", "memmax_rd"}
  /\ ret' = [h |-> pc["ctl"],
             val |-> CASE pc["ctl"] = "thresh_rd" -> thresh_read_handler(rm)
                       [] pc["ctl"] = "mem_rd" -> mem_read_handler(rm)
                       [] OTHER -> memmax_read_handler(rm)]
  /\ pc' = [pc EXCEPT !["ctl"] = "idle"]
  /\ UNCHANGED <<rm, phase, lock, ff, ops, twin>>

Next ==
  \/ Configure \/ Initialize \/ Tick
  \/ PushAcquire \/ PushUpdate \/ PushOutput
  \/ PullInput \/ PullUpdate
  \/ ResetAcquire \/ ResetBody
  \/ MemmaxWriteError \/ MemmaxWriteAcquire \/ MemmaxWriteSet
  \/ ForcedFoldTest
  \/ ForcedFoldStep \/ ForcedFoldExit
  \/ AnnoWriteError \/ AnnoWriteAcquire \/ AnnoWriteSet
  \/ LookUnavailable \/ LookAttempt \/ LookDump
  \/ ReadEnter \/ ReadReturn

Spec == Init /\ [][Next]_vars

\* A handler that is running keeps running: the steps of forced_fold's loop
\* are taken whenever they stay possible.
FairInit == Constructed(MaxOps - FairOps)

FairSpec ==
  /\ FairInit /\ [][Next]_vars
  /\ WF_vars(ForcedFoldTest) /\ WF_vars(ForcedFoldStep) /\ WF_vars(ForcedFoldExit)

\* ----------------------------------------------------------- paired runs

\* Two monitors configured alike but for the ratio, initialized, and then fed
\* the same packets through pull at the same ticks.
PairRatios == {RatioOne, RatioOne \div 2}
PairThreshs == {1, 2, 4}

\* configure and initialize on a fresh monitor.
Started(conf) == initialize(configure(IPRateMonitor, conf).m)

PairInit ==
  /\ \E what \in {"PACKETS", "BYTES"}, t \in PairThreshs :
       \E r1 \in PairRatios : \E r2 \in PairRatios \ {r1} :
         /\ rm = Started(Conf(TRUE, what, r1, t, 0))
         /\ twin = Started(Conf(TRUE, what, r2, t, 0))
  /\ phase = "initialized"
  /\ lock = "free"
  /\ pc = [c \in Contexts |-> "idle"]
  /\ ff = NoFold
  /\ ret = NoRet
  /\ ops = 0

\* pull on both monitors: the same packet from the same port.
PairPull ==
  /\ ops < MaxPairOps
  /\ \E p \in Packets, port \in Ports :
       /\ rm' = update_rates(rm, p, port = 0, TRUE)
       /\ twin' = update_rates(twin, p, port = 0, TRUE)
  /\ ops' = ops + 1
  /\ ret' = [h |-> "pull", val |-> 0]
  /\ UNCHANGED <<phase, lock, pc, ff>>

\* One tick of the clock both monitors read.
PairTick ==
  /\ rm' = ClockTick(rm)
  /\ twin' = ClockTick(twin)
  /\ ret' = NoRet
  /\ UNCHANGED <<phase, lock, pc, ff, ops>>

PairNext == PairPull \/ PairTick

PairSpec == PairInit /\ [][PairNext]_vars

\* ---------------------------------------------------------- a busy tree

\* A monitor that has seen one packet and then anno_level writes at level 0
\* for n further addresses: the root holds n more counters.
RECURSIVE Fill(_, _)
Fill(m, n) ==
  IF n = 0 THEN m
  ELSE The({ Fill(m1, n - 1) :
             m1 \in {set_anno_level(m, <<FillFrom + n, 0, 0, 0>>, 0, EWMA_freq)} })

Busy(n) ==
  Fill(update_rates(Started(Conf(TRUE, "BYTES", RatioOne, 1, 0)),
                    [src |-> AddrA, dst |-> AddrB, len |-> 2], TRUE, TRUE), n)

\* The runs from a busy tree: one more operation, a write of memmax.
BusyInit ==
  /\ \E n \in 0..MaxFill : rm = Busy(n)
  /\ twin = NoTwin
  /\ phase = "initialized"
  /\ lock = "free"
  /\ pc = [c \in Contexts |-> "idle"]
  /\ ff = NoFold
  /\ ret = NoRet
  /\ ops = MaxOps - 1

BusyNext ==
  \/ Tick
  \/ MemmaxWriteAcquire \/ MemmaxWriteSet
  \/ ForcedFoldTest \/ ForcedFoldStep \/ ForcedFoldExit

BusySpec == BusyInit /\ [][BusyNext]_vars

\* ------------------------------------------------------------ the claims

OnceEach(q, S) == Range(q) = S /\ Len(q) = Cardinality(S)

NonRoot(m) == DOMAIN m.stats \ {m.base}

\* C1 as stated: the age-list reachable from first and from last holds
\* exactly the live non-root nodes, once each; the root is not on it and is
\* neither first nor last.
C1_AgeListExcludesRoot ==
  Running =>
    /\ OnceEach(FromFirst(rm), NonRoot(rm))
    /\ OnceEach(FromLast(rm), NonRoot(rm))
    /\ rm.first # rm.base /\ rm.last # rm.base

\* C1 amended: the age-list reachable from first and from last holds the
\* root and the live non-root nodes, once each; the root is always first, and
\* it is last exactly when no non-root node is alive.
C1_AgeListWithRoot ==
  Running =>
    /\ OnceEach(FromFirst(rm), DOMAIN rm.stats)
    /\ OnceEach(FromLast(rm), DOMAIN rm.stats)
    /\ rm.first = rm.base
    /\ (rm.last = rm.base) = (NonRoot(rm) = {})

\* A fold has destroyed a node and left others on the list behind the root.
C1_Witness ==
  /\ pc["ctl"] = "forced_fold"
  /\ rm.next_deleted # NULL
  /\ Cardinality(NonRoot(rm)) >= 2

\* C2: _alloced_mem is the bytes of the live Stats and Counters, in every
\* state of a running monitor.
C2_AllocedMemIsLiveBytes == Running => rm.alloced_mem = LiveBytes(rm)

\* The calls C3 speaks of.
EntryPoints == {"push", "pull", "memmax_write", "anno_level_write", "reset"}

\* C3: with a memory ceiling set, _alloced_mem is within it in the step
\* in which push, pull or a write handler is done.
C3_WithinMemmax ==
  (ret.h \in EntryPoints /\ rm.memmax > 0) => rm.alloced_mem <= rm.memmax

\* C4: when the reset handler returns the tree holds only the root, every
\* root slot is empty, the age-list holds no non-root node and _alloced_mem
\* is sizeof(root).
C4_ResetLeavesRoot ==
  ret.h = "reset" =>
    /\ DOMAIN rm.stats = {rm.base}
    /\ DOMAIN rm.stats[rm.base].counter = {}
    /\ Range(FromFirst(rm)) \subseteq {rm.base}
    /\ rm.alloced_mem = SizeofStats

\* The stages in which a context is inside update_rates or inside a
\* handler's work on the tree, the age-list and _alloced_mem.
Mutating == {"push_cs", "pull_upd", "reset_cs", "memmax_cs", "forced_fold", "forced_fold_body",
             "anno_cs", "look_cs"}

\* C5: the two contexts are never both inside the mutation of the tree, the
\* age-list and _alloced_mem, whichever of push and pull the packet path runs.
C5_PacketPathExcluded ==
  ~(pc["pkt"] \in Mutating /\ pc["ctl"] \in Mutating)

\* The handler stages that read or write monitor state.
Accessing == {"reset_cs", "memmax_cs", "forced_fold", "forced_fold_body", "anno_cs", "look_cs",
              "thresh_rd", "mem_rd", "memmax_rd"}

\* C6: a handler reads or writes monitor state only under the monitor lock,
\* so never while the packet path is inside its critical section.
C6_HandlersExcluded == pc["ctl"] \in Accessing => lock # "pkt"

\* C7: look never waits for the lock. Started while another context holds
\* it, look returns in that step the ticks since the last reset followed by
\* "unavailable", leaving the monitor and the lock as they were; otherwise
\* it gets the lock, and the step that dumps the tree releases it and returns.
C7_LookNeverWaits ==
  /\ [](Begin("ctl") => ENABLED (LookUnavailable \/ LookAttempt))
  /\ [](pc["ctl"] = "look_cs" => lock = "ctl")
  /\ [][/\ (ret'.h = "look" /\ ret'.body = "unavailable") =>
             /\ lock \notin {"free", "ctl"}
             /\ ret'.val = rm.resettime
             /\ rm' = rm /\ lock' = lock /\ pc' = pc
        /\ (pc["ctl"] = "look_cs" /\ pc'["ctl"] # "look_cs") =>
             /\ ret'.h = "look" /\ ret'.body = "dump"
             /\ lock' = "free" /\ pc'["ctl"] = "idle"]_vars

\* look has answered "unavailable" while push holds the lock.
C7_Witness == ret.h = "look" /\ ret.body = "unavailable" /\ pc["pkt"] = "push_cs"

InForcedFold == pc["ctl"] \in {"forced_fold", "forced_fold_body"}

\* C8: forced_fold always terminates: once entered, its loop is left.
C8_ForcedFoldTerminates == InForcedFold ~> ~InForcedFold

\* C9: a call that returns a configuration error leaves the monitor as it
\* was before the call.
C9_ErrorLeavesState ==
  [][(ret'.h \in {"configure", "memmax_write", "anno_level_write"} /\ ret'.val = -1)
       => rm' = rm]_vars

ParentOK(m, n) ==
  LET p == m.stats[n].parent
  IN  /\ p # NullCounter
      /\ p[1] \in DOMAIN m.stats
      /\ p[2] \in DOMAIN m.stats[p[1]].counter
      /\ m.stats[p[1]].counter[p[2]].next_level = n

\* C10: every live non-root node has a parent counter whose next_level is
\* that node, and every counter's next_level is null or a live node.
C10_ParentChildConsistent ==
  Running =>
    /\ \A n \in NonRoot(rm) : ParentOK(rm, n)
    /\ \A s \in DOMAIN rm.stats : \A i \in DOMAIN rm.stats[s].counter :
         LET n == rm.stats[s].counter[i].next_level
         IN  n # NULL => (n \in NonRoot(rm) /\ rm.stats[n].parent = <<s, i>>)

\* A fold has destroyed a node whose parent counter lives on, beside others.
C10_Witness ==
  /\ pc["ctl"] = "forced_fold"
  /\ rm.prev_deleted # NULL
  /\ NonRoot(rm) # {}
  /\ \E s \in DOMAIN rm.stats : \E i \in DOMAIN rm.stats[s].counter :
       rm.stats[s].counter[i].next_level = NULL /\ rm.stats[s].counter[i].fwd_rate.avg > 0

\* The thresholds fold is tried with, and the nodes a call destroyed.
FoldThreshs == 0..MaxFoldThresh
Destroyed(m, after) == DOMAIN m.stats \ DOMAIN after.stats

\* C11: fold(t) called again right after fold(t), at the same tick and with
\* no traffic in between, destroys no node, whatever direction either call
\* picks, with a memory ceiling or without.
C11_FoldIdempotent ==
  Running =>
    \A t \in FoldThreshs : \A f1, f2 \in BOOLEAN :
      Destroyed(fold(rm, t, f1), fold(fold(rm, t, f1), t, f2)) = {}

\* The counters of a monitor with the averages of their two rates.
Averages(m) ==
  [s \in DOMAIN m.stats |->
    [i \in DOMAIN m.stats[s].counter |->
      <<EWMA_average(m.stats[s].counter[i].fwd_rate),
        EWMA_average(m.stats[s].counter[i].rev_rate)>>]]

\* C12: two monitors that differ only in the configured ratio and are fed
\* the same packets through pull at the same ticks hold the same counters
\* with the same averages.
C12_PullIgnoresRatio ==
  twin # NoTwin => Averages(rm) = Averages(twin)

\* The slots and the parent rates make_counter is tried with.
SlotsTried == {AddrA[1], AddrB[1], 7}
SeedsTried == {<< >>, <<[avg |-> 3, age |-> 1]>>}

FoldLog(forward) == fold(rm, ff.thresh, forward).fold_log

\* C14: fold stops as soon as _alloced_mem <= target: it destroys no node
\* in a state where _alloced_mem is already <= target, equality included.
C14_FoldStopsAtTarget ==
  pc["ctl"] = "forced_fold_body" =>
    \A forward \in BOOLEAN : \A k \in DOMAIN FoldLog(forward) :
      FoldLog(forward)[k].what = "destroyed" =>
        FoldLog(forward)[k].alloc > FoldLog(forward)[k].target

\* The counter that owns node n.
ParentOf(m, n) == m.stats[m.stats[n].parent[1]].counter[m.stats[n].parent[2]]

\* C15 as stated: for every non-root node fold visits it ages both rates of
\* the owning counter with a zero sample, the reverse rate also when the
\* forward average is not below the threshold.
C15_FoldAgesBoth ==
  pc["ctl"] = "forced_fold_body" =>
    \A forward \in BOOLEAN :
      LET after == fold(rm, ff.thresh, forward)
      IN  \A k \in DOMAIN after.fold_log :
            LET v == after.fold_log[k]
            IN  v.what \in {"fwd_warm", "rev_warm", "destroyed"} =>
                  /\ v.rev_aged
                  /\ v.node \in DOMAIN after.stats =>
                       /\ ParentOf(after, v.node).fwd_rate
                            = EWMA_update(ParentOf(rm, v.node).fwd_rate, 0)
                       /\ ParentOf(after, v.node).rev_rate
                            = EWMA_update(ParentOf(rm, v.node).rev_rate, 0)

\* C15 amended: for every non-root node fold visits it ages the forward
\* rate of the owning counter with a zero sample; it ages the reverse rate
\* exactly when the aged forward average is below the threshold, and
\* otherwise leaves the reverse rate as it was.
C15_FoldAgesRevWhenFwdCold ==
  Running =>
    \A t \in FoldThreshs, forward \in BOOLEAN :
      LET after == fold(rm, t, forward)
      IN  \A k \in DOMAIN after.fold_log :
            LET v == after.fold_log[k]
            IN  v.what \in {"fwd_warm", "rev_warm", "destroyed"} =>
                  /\ v.fwd # NULL
                  /\ v.rev_aged = (v.fwd < t)
                  /\ v.node \in DOMAIN after.stats =>
                       /\ ParentOf(after, v.node).fwd_rate
                            = EWMA_update(ParentOf(rm, v.node).fwd_rate, 0)
                       /\ EWMA_average(ParentOf(after, v.node).fwd_rate) = v.fwd
                       /\ ParentOf(after, v.node).rev_rate
                            = IF v.fwd < t
                              THEN EWMA_update(ParentOf(rm, v.node).rev_rate, 0)
                              ELSE ParentOf(rm, v.node).rev_rate

\* forced_fold is about to call fold, which will keep a node for its forward
\* average alone while the owning counter's reverse rate has something to age.
C15_Witness ==
  /\ pc["ctl"] = "forced_fold_body"
  /\ \E forward \in BOOLEAN :
       \E k \in DOMAIN FoldLog(forward) :
         /\ FoldLog(forward)[k].what = "fwd_warm"
         /\ EWMA_average(ParentOf(rm, FoldLog(forward)[k].node).rev_rate) > 0

RECURSIVE Ancestors(_, _)
\* The nodes above n in the tree.
Ancestors(m, n) ==
  LET p == m.stats[n].parent
  IN  IF p = NullCounter THEN {} ELSE {p[1]} \cup Ancestors(m, p[1])

\* The average a rate shows once aged with a zero sample at this tick.
Aged(e) == EWMA_average(EWMA_update(e, 0))

\* The entries of a fold's history that are deletes.
Deletes(log) == {k \in DOMAIN log : log[k].what = "destroyed"}

\* C16: fold(t) never destroys the root; every node it selects has an owning
\* counter whose forward and reverse averages, aged at this tick, are both
\* strictly below t; every other node that disappears is a descendant of a
\* selected node.
C16_FoldDestroysOnlyCold ==
  Running =>
    \A t \in FoldThreshs, forward \in BOOLEAN :
      LET after == fold(rm, t, forward)
          log == after.fold_log
      IN  /\ rm.base \in DOMAIN after.stats
          /\ \A k \in Deletes(log) :
               /\ log[k].node # rm.base
               /\ log[k].fwd >= 0 /\ log[k].fwd < t
               /\ log[k].rev >= 0 /\ log[k].rev < t
               /\ Aged(ParentOf(rm, log[k].node).fwd_rate) < t
               /\ Aged(ParentOf(rm, log[k].node).rev_rate) < t
          /\ \A g \in Destroyed(rm, after) :
               \E k \in Deletes(log) :
                 g = log[k].node \/ log[k].node \in Ancestors(rm, g)

\* forced_fold is about to call fold, which will delete a node and, with
\* it, the nodes below it.
C16_Witness ==
  /\ pc["ctl"] = "forced_fold_body"
  /\ \E forward \in BOOLEAN :
       \E k \in Deletes(FoldLog(forward)) :
         Cardinality(FoldLog(forward)[k].gone) >= 2

\* C17: the neighbour ~Stats publishes for fold to resume from (next_deleted
\* walking forward, prev_deleted walking backward) is null or a node that is
\* alive and on the age-list; fold never visits a destroyed node.
C17_FoldResumesOnLiveNode ==
  Running =>
    \A t \in FoldThreshs, forward \in BOOLEAN :
      LET log == fold(rm, t, forward).fold_log
      IN  /\ \A k \in DOMAIN log : log[k].what # "freed"
          /\ \A k \in Deletes(log) :
               \/ log[k].published = NULL
               \/ /\ log[k].published \in log[k].live
                  /\ log[k].published \in log[k].listed
                  /\ log[k].published \notin log[k].gone

\* forced_fold is about to call fold, which will delete a node with the
\* nodes below it and go on from the neighbour ~Stats published.
C17_Witness ==
  /\ pc["ctl"] = "forced_fold_body"
  /\ \E forward \in BOOLEAN :
       \E k \in Deletes(FoldLog(forward)) :
         /\ Cardinality(FoldLog(forward)[k].gone) >= 2
         /\ FoldLog(forward)[k].published # NULL
         /\ k < Len(FoldLog(forward))
         /\ FoldLog(forward)[k + 1].node = FoldLog(forward)[k].published

\* floor(t * r / 2^16) for r <= 2^16, the value "(_thresh * _ratio) >> 16"
\* has when the product is not cut to 32 bits.
ScaledThresh(t, r) ==
  (t \div RatioOne) * r + (((t % RatioOne) * r) \div RatioOne)

\* C18: after a successful configure with threshold T > 0 and ratio R in
\* (0, 1], the stored threshold, which the thresh read handler reports, is
\* floor(T * R / 2^16) whatever the 32-bit T, and is positive.
C18_ThreshScaled ==
  (/\ ret.h = "configure"
   /\ ret.val = 0
   /\ ret.conf.thresh > 0
   /\ ret.conf.ratio \in 1..RatioOne)
  => /\ rm.thresh = ScaledThresh(ret.conf.thresh, ret.conf.ratio)
     /\ thresh_read_handler(rm) = ScaledThresh(ret.conf.thresh, ret.conf.ratio)
     /\ rm.thresh > 0

\* The links of the live nodes stay among the live nodes and mirror each
\* other.
LinksOK(m) ==
  \A n \in DOMAIN m.stats :
    /\ m.stats[n].next \in DOMAIN m.stats \cup {NULL}
    /\ m.stats[n].prev \in DOMAIN m.stats \cup {NULL}
    /\ m.stats[n].next # NULL => m.stats[m.stats[n].next].prev = n
    /\ m.stats[n].prev # NULL => m.stats[m.stats[n].prev].next = n

\* C19: in every state of a running monitor the age-list is a well-formed
\* doubly-linked list: first and last are live, first.prev and last.next are
\* null, n.next.prev = n for every node with a successor, following next from
\* first ends at last, and no destroyed node is reachable through first,
\* last, prev or next.
C19_AgeListWellFormed ==
  Running =>
    /\ rm.first \in DOMAIN rm.stats /\ rm.last \in DOMAIN rm.stats
    /\ LinksOK(rm)
    /\ rm.stats[rm.first].prev = NULL
    /\ rm.stats[rm.last].next = NULL
    /\ FromFirst(rm)[Len(FromFirst(rm))] = rm.last
    /\ FromLast(rm)[Len(FromLast(rm))] = rm.first
    /\ Range(FromFirst(rm)) \subseteq DOMAIN rm.stats
    /\ Range(FromLast(rm)) \subseteq DOMAIN rm.stats

\* A memmax write has returned after its fold destroyed a node together with
\* the nodes below it, out of the middle of the list.
C19_Witness ==
  /\ ret.h = "memmax_write" /\ ret.val = 0
  /\ rm.next_deleted # NULL /\ rm.prev_deleted # NULL
  /\ Cardinality(NonRoot(rm)) >= 2
  /\ rm.alloced_mem <= rm.memmax

\* Where a context stands between its acquire and its release.
Critical ==
  [pkt |-> {"push_cs"},
   ctl |-> {"reset_cs", "memmax_cs", "forced_fold", "forced_fold_body",
            "anno_cs", "look_cs"}]

\* The handlers that run in the control context.
CtlHandlers ==
  {"reset", "memmax_write", "anno_level_write", "look",
   "thresh_rd", "mem_rd", "memmax_rd"}

\* C20: the lock is never held across a return or a hand-off: push has
\* released it when it hands the packet downstream, every write handler and a
\* successful look have released it when they return, an argument error of a
\* write handler returns without having taken it, and with no operation in
\* progress the lock is free.
C20_LockNotHeldAcrossReturn ==
  /\ \A c \in {"pkt", "ctl"} : lock = c => pc[c] \in Critical[c]
  /\ pc["pkt"] = "push_out" => lock # "pkt"
  /\ ret.h \in {"push", "pull"} => lock # "pkt"
  /\ ret.h \in CtlHandlers => lock # "ctl"
  /\ (pc["pkt"] = "idle" /\ pc["ctl"] = "idle") => lock = "free"

\* push is handing its packet downstream while a memmax write that had to
\* fold returns.
C20_Witness ==
  /\ pc["pkt"] = "push_out"
  /\ ret.h = "memmax_write" /\ ret.val = 0
  /\ rm.memmax # 0
  /\ rm.next_deleted # NULL \/ rm.prev_deleted # NULL
  /\ lock = "free"

====
